---- MODULE Spec2Model ----
(***************************************************************************)
(* Stereo 3D human-pose baseline (src/baseline.py): BaseLine.inference,    *)
(* BaseLine.estimate, project, plot_pose_2d, plot_pose_3d, plot_body and   *)
(* the frame loop of __main__.  The helpers imported from tools/ and       *)
(* models/ (get_max_preds, project_3d_to_2d, get_projection_matrix,        *)
(* triangulation, PoseResNet, LoadMADSData) are modelled from their        *)
(* documented contracts.                                                   *)
(***************************************************************************)
EXTENDS Integers, Sequences, FiniteSets, TLC

\* ---------------------------------------------------------------- constants
NumJoints == 19
Stride == 4
Uint8Range == 256

\* ------------------------------------------------------------------- bounds
DecH == 2
DecW == 66
HeatH == 2
HeatW == 2
MaxVal == 1
MaxFrames == 2

None == "None"
Views == {"left", "right"}
Joints == 1..NumJoints

VARIABLES pc, frame, self, meta, img_left, img_right,
          pose_2d_left, pose_2d_right, preds_left, preds_right,
          PL, PR, pts3D, img_2d, img_3d, pose_img, images, inf,
          loaded, used_gt, tri_args, uint8_wraps

vars == <<pc, frame, self, meta, img_left, img_right,
          pose_2d_left, pose_2d_right, preds_left, preds_right,
          PL, PR, pts3D, img_2d, img_3d, pose_img, images, inf,
          loaded, used_gt, tri_args, uint8_wraps>>

\* ------------------------------------------------------------ integer helpers
Abs(x) == IF x < 0 THEN -x ELSE x

RECURSIVE Gcd(_, _)
Gcd(a, b) == IF b = 0 THEN Abs(a) ELSE Gcd(b, a % Abs(b))

\* Python's int() of the quotient x/w: truncation toward zero.
TruncDiv(x, w) ==
    LET q == Abs(x) \div Abs(w)
    IN  IF (x < 0) = (w < 0) THEN q ELSE -q

\* --------------------------------------------------------------- heatmaps
\* One joint's map, flattened row-major as get_max_preds reshapes it.
NCells(h, w) == h * w

\* A stack of NumJoints maps of h x w cells: background value lo, and the
\* value lo + d at two cells that move with the joint index.
StackOf(h, w, c1, c2, lo, d) ==
    [j \in Joints |->
        [i \in 0..(NCells(h, w) - 1) |->
            IF i = (c1 + (j - 1)) % NCells(h, w)
               \/ i = (c2 + 3 * (j - 1)) % NCells(h, w)
            THEN lo + d ELSE lo]]

\* An image as handed over by the loader: its pixel content (abstracted to
\* the joint evidence it shows, one map per joint at 1/Stride resolution)
\* and the markers drawn on it so far.
Image(h, w, content) == [H |-> h, W |-> w, pix |-> content, marks |-> {}]

\* img.copy()
Copy(img) == [H |-> img.H, W |-> img.W, pix |-> img.pix, marks |-> img.marks]

\* self.transform(inputs).unsqueeze(0): ToTensor + Normalize, batch of one.
Transform(self_, img) ==
    [kind |-> "tensor", batch |-> 1, by |-> self_.transform, data |-> img]

\* The heatmap cells a marker at pixel (x, y) falls in.
MarkedCells(img) ==
    {(m[2] \div Stride) * img.W + (m[1] \div Stride) :
        m \in {k \in img.marks : /\ k[1] >= 0 /\ k[1] < img.W * Stride
                                 /\ k[2] >= 0 /\ k[2] < img.H * Stride}}

\* self.model(inputs): one synchronous call, tensor -> heatmap stack.  The
\* network answers with the evidence in the pixels; a drawn marker is a
\* bright blob and shows up as a full-strength response in its cell.
PoseResNet(self_, inputs) ==
    LET img == inputs.data
    IN  [H |-> img.H, W |-> img.W,
         val |-> [j \in Joints |->
                    [i \in DOMAIN img.pix[j] |->
                        IF i \in MarkedCells(img) THEN MaxVal + 1
                        ELSE img.pix[j][i]]]]

\* ------------------------------------------------------ get_max_preds
\* The largest value of a map.
MaxOf(v) == CHOOSE m \in {v[i] : i \in DOMAIN v} : \A i \in DOMAIN v : v[i] <= m

\* Smallest element of a non-empty set of integers.
MinOf(S) == CHOOSE i \in S : \A k \in S : i <= k

\* Mutant of ArgMax: the last index holding the largest value.
ArgMaxLast(v, n) ==
    LET m == MaxOf(v)
    IN  CHOOSE i \in {k \in 0..(n - 1) : v[k] = m} :
            \A k \in {q \in 0..(n - 1) : v[q] = m} : k <= i

\* np.argmax over the flattened map: the first index, in row-major order,
\* that holds the largest value.
ArgMax(v, n) ==
    LET m == MaxOf(v)
    IN  MinOf({i \in 0..(n - 1) : v[i] = m})

\* preds[b][j] = (idx % W, idx // W) in heatmap cells, maxvals[b][j] = the
\* peak value; b ranges over the batch (of one).
get_max_preds(hm) ==
    LET n == NCells(hm.H, hm.W)
        idx == [j \in Joints |-> ArgMax(hm.val[j], n)]
    IN  [preds   |-> << [j \in Joints |-> <<idx[j] % hm.W, idx[j] \div hm.W>>] >>,
         maxvals |-> << [j \in Joints |-> hm.val[j][idx[j]]] >>]

\* preds * 4.0 (line 143)
Rescale(preds) ==
    << [j \in Joints |-> <<preds[1][j][1] * Stride, preds[1][j][2] * Stride>>] >>

\* One float as np.uint8: in range it is the value itself; out of range the
\* C conversion is undefined and a build either wraps modulo 256 or saturates.
CastUint8(x, wrap) ==
    IF x >= 0 /\ x < Uint8Range THEN x
    ELSE IF wrap THEN x % Uint8Range ELSE Uint8Range - 1

\* preds.astype(np.uint8) (line 144)
AstypeUint8(preds, wrap) ==
    << [j \in Joints |-> <<CastUint8(preds[1][j][1], wrap),
                           CastUint8(preds[1][j][2], wrap)>>] >>

\* .squeeze(0) (lines 151-152)
Squeeze(batch) == batch[1]

\* ------------------------------------------------------------ linear algebra
Dot3(a, b) == a[1] * b[1] + a[2] * b[2] + a[3] * b[3]
Dot4(a, b) == a[1] * b[1] + a[2] * b[2] + a[3] * b[3] + a[4] * b[4]
Col3(M, c) == <<M[1][c], M[2][c], M[3][c]>>

Det3(a, b, c) ==
      a[1] * (b[2] * c[3] - b[3] * c[2])
    - a[2] * (b[1] * c[3] - b[3] * c[1])
    + a[3] * (b[1] * c[2] - b[2] * c[1])

Drop(v, k) == [i \in 1..3 |-> IF i < k THEN v[i] ELSE v[i + 1]]

Gcd4(v) == Gcd(Gcd(v[1], v[2]), Gcd(v[3], v[4]))

\* A non-zero integer vector scaled to coprime entries (same direction).
Primitive(v) ==
    LET g == Gcd4(v)
    IN  IF g = 0 THEN v ELSE [i \in 1..4 |-> TruncDiv(v[i], g)]

\* The vector of signed 3x3 minors of three rows: orthogonal to each of them,
\* and non-zero exactly when the three rows are independent.
Cross4(a, b, c) ==
    << -Det3(Drop(a, 1), Drop(b, 1), Drop(c, 1)),
        Det3(Drop(a, 2), Drop(b, 2), Drop(c, 2)),
       -Det3(Drop(a, 3), Drop(b, 3), Drop(c, 3)),
        Det3(Drop(a, 4), Drop(b, 4), Drop(c, 4)) >>

IsZero4(v) == v[1] = 0 /\ v[2] = 0 /\ v[3] = 0 /\ v[4] = 0

\* ------------------------------------------------- get_projection_matrix
\* P = K . [R | t], a 3 x 4 matrix.
get_projection_matrix(K, R, T) ==
    [r \in 1..3 |->
        [c \in 1..4 |->
            IF c <= 3 THEN Dot3(K[r], Col3(R, c)) ELSE Dot3(K[r], T)]]

\* ------------------------------------------------------ project_3d_to_2d
\* One point: P . (X, 1) = (x, y, w); the pixel is (x / w, y / w).  The pair
\* of quotients is kept exact as the triple <<x, y, w>> in lowest terms;
\* w = 0 stands for the non-finite result of the division.
ProjectPoint(P, X) ==
    LET h == <<X[1], X[2], X[3], 1>>
        x == Dot4(P[1], h)
        y == Dot4(P[2], h)
        w == Dot4(P[3], h)
        g == Gcd(Gcd(x, y), w)
    IN  IF g = 0 THEN <<x, y, w>>
        ELSE <<TruncDiv(x, g), TruncDiv(y, g), TruncDiv(w, g)>>

project_3d_to_2d(pose_3d, K, R, T) ==
    [j \in DOMAIN pose_3d |-> ProjectPoint(get_projection_matrix(K, R, T), pose_3d[j])]

\* Mutant of project: the right view projected with the left intrinsics.
projectLeftIntrinsics(m) ==
    << project_3d_to_2d(m.pose_3d, m.cam_left.intrinsics,
                        m.cam_left.rotation, m.cam_left.translation),
       project_3d_to_2d(m.pose_3d, m.cam_left.intrinsics,
                        m.cam_right.rotation, m.cam_right.translation) >>

\* project(meta), lines 23-36
project(m) ==
    << project_3d_to_2d(m.pose_3d, m.cam_left.intrinsics,
                        m.cam_left.rotation, m.cam_left.translation),
       project_3d_to_2d(m.pose_3d, m.cam_right.intrinsics,
                        m.cam_right.rotation, m.cam_right.translation) >>

\* ----------------------------------------------------------- triangulation
\* The two DLT rows of one view for the pixel (u, v) = (x / w, y / w):
\* u * P_row3 - P_row1 and v * P_row3 - P_row2, each multiplied by w to stay
\* in the integers (a row's scale does not change the null space).
DltRows(P, p) ==
    << Primitive([c \in 1..4 |-> p[1] * P[3][c] - p[3] * P[1][c]]),
       Primitive([c \in 1..4 |-> p[2] * P[3][c] - p[3] * P[2][c]]) >>

DltSystem(P_L, P_R, xl, xr) ==
    << DltRows(P_L, xl)[1], DltRows(P_L, xl)[2],
       DltRows(P_R, xr)[1], DltRows(P_R, xr)[2] >>

\* The null direction obtained by leaving row r out.
NullFrom(A, r) ==
    CASE r = 1 -> Cross4(A[2], A[3], A[4])
      [] r = 2 -> Cross4(A[1], A[3], A[4])
      [] r = 3 -> Cross4(A[1], A[2], A[4])
      [] OTHER -> Cross4(A[1], A[2], A[3])

\* rank(A) >= 3: some three rows are independent.
RankAtLeast3(A) == \E r \in 1..4 : ~IsZero4(NullFrom(A, r))

FirstIndependent(A) == CHOOSE r \in 1..4 :
    /\ ~IsZero4(NullFrom(A, r))
    /\ \A q \in 1..(r - 1) : IsZero4(NullFrom(A, q))

\* A homogeneous 4-vector as the Euclidean point it stands for (division of
\* the first three components by the fourth), kept exact: coprime entries
\* with a positive fourth one; a zero fourth component is a point at infinity.
Dehomogenize(n) ==
    LET p == Primitive(n)
    IN  IF p[4] = 0 THEN [kind |-> "infinite", h |-> p]
        ELSE [kind |-> "point",
              h |-> IF p[4] < 0 THEN [i \in 1..4 |-> -p[i]] ELSE p]

\* The triangulated point of one joint: the right singular vector of A for
\* its smallest singular value.
\*  - rank 3: the one null direction of A;
\*  - rank 4 (inconsistent pixels): the least-squares direction, a function
\*    of A that is not computed here;
\*  - rank < 3: the null space is a plane or more and the solver returns one
\*    of its directions; every candidate in it is a possible outcome.
SvdOutcomes(A, candidates) ==
    IF RankAtLeast3(A)
    THEN LET r == FirstIndependent(A)
             n == NullFrom(A, r)
         IN  IF Dot4(A[r], n) = 0 THEN {Dehomogenize(n)}
             ELSE {[kind |-> "lstsq", h |-> A]}
    ELSE {Dehomogenize(c) : c \in {d \in candidates :
              \A r \in 1..4 : Dot4(A[r], d) = 0}}

\* A keypoint given as a pixel pair is the triple with w = 1.
Pixel(p) == IF Len(p) = 3 THEN p ELSE <<p[1], p[2], 1>>

RECURSIVE ArraysOver(_, _, _)
\* All arrays a over 1..n with a[j] \in S[j].
ArraysOver(S, n, k) ==
    IF k > n THEN {<< >>}
    ELSE {<<x>> \o rest : x \in S[k], rest \in ArraysOver(S, n, k + 1)}

\* triangulation(PL, PR, x_left, x_right): every joint on its own.
\* A non-finite pixel makes the whole system non-finite.
triangulation(P_L, P_R, x_left, x_right, candidates) ==
    ArraysOver([j \in DOMAIN x_left |->
                   IF Pixel(x_left[j])[3] = 0 \/ Pixel(x_right[j])[3] = 0
                   THEN {[kind |-> "nonfinite", h |-> << >>]}
                   ELSE SvdOutcomes(DltSystem(P_L, P_R, Pixel(x_left[j]),
                                              Pixel(x_right[j])),
                                    candidates)],
               Len(x_left), 1)

\* ------------------------------------------------------------- plot_pose_2d
\* plot_joints (lines 98-102): a filled circle per joint, drawn in place.
\* int() of a non-finite coordinate raises, which ends the loop there.
RECURSIVE PlotJointsFrom(_, _, _, _, _)
PlotJointsFrom(joints, k, img, color, read) ==
    IF k > Len(joints) THEN [img |-> img, read |-> read, raised |-> FALSE]
    ELSE LET p == Pixel(joints[k])
         IN  IF p[3] = 0
             THEN [img |-> img, read |-> read \cup {p}, raised |-> TRUE]
             ELSE PlotJointsFrom(joints, k + 1,
                      [img EXCEPT !.marks = @ \cup
                          {<<TruncDiv(p[1], p[3]), TruncDiv(p[2], p[3]), color>>}],
                      color, read \cup {p})

plot_joints(joints, img, color) == PlotJointsFrom(joints, 1, img, color, {})

\* One turn of the loop of lines 104-106: ground truth in (255, 0, 0), then
\* the predictions in (0, 255, 0), on the same image.
PlotView(gt, pred, img) ==
    LET g == plot_joints(gt, img, "255,0,0")
    IN  IF g.raised THEN [img |-> g.img, read |-> g.read, raised |-> TRUE]
        ELSE LET q == plot_joints(pred, g.img, "0,255,0")
             IN  [img |-> q.img, read |-> g.read, raised |-> q.raised]

\* ------------------------------------------------- plot_body, plot_pose_3d
\* Mutant of connections: the last pair mistyped.
connectionsTypo ==
    << <<0, 1>>, <<0, 18>>,
       <<1, 6>>, <<6, 7>>, <<7, 8>>, <<8, 9>>,
       <<0, 14>>, <<14, 15>>, <<15, 16>>, <<16, 17>>,
       <<1, 2>>, <<2, 3>>, <<3, 4>>, <<4, 5>>,
       <<0, 10>>, <<10, 11>>, <<11, 12>>, <<12, 12>> >>

\* The skeleton table of plot_body (lines 41-48), joint indices from 0.
connections ==
    << <<0, 1>>, <<0, 18>>,
       <<1, 6>>, <<6, 7>>, <<7, 8>>, <<8, 9>>,
       <<0, 14>>, <<14, 15>>, <<15, 16>>, <<16, 17>>,
       <<1, 2>>, <<2, 3>>, <<3, 4>>, <<4, 5>>,
       <<0, 10>>, <<10, 11>>, <<11, 12>>, <<12, 13>> >>

\* plot_body (lines 39-61): the joints scattered, one segment per connection.
plot_body(points, color, label) ==
    [scatter |-> points, color |-> color, label |-> label,
     lines |-> [k \in 1..Len(connections) |->
                  [from |-> connections[k][1], to |-> connections[k][2],
                   seg |-> <<points[connections[k][1] + 1],
                             points[connections[k][2] + 1]>>]]]

\* Rotation.from_euler('zyx', [0, 0, 90]): a quarter turn about the x axis.
RotX90(X) == <<X[1], -X[3], X[2]>>

RotX90Estimate(e) ==
    IF e.kind \in {"point", "infinite"}
    THEN [e EXCEPT !.h = <<e.h[1], -e.h[3], e.h[2], e.h[4]>>]
    ELSE [kind |-> e.kind, h |-> <<"rot", e.h>>]

\* plot_pose_3d (lines 64-94)
plot_pose_3d(pose_3d, pts) ==
    [gt  |-> plot_body([j \in DOMAIN pose_3d |-> RotX90(pose_3d[j])],
                       "#03459c", "ground truth"),
     est |-> plot_body([j \in DOMAIN pts |-> RotX90Estimate(pts[j])],
                       "#27d128", "estimation")]

\* -------------------------------------------------------------- BaseLine
\* Mutant of BaseLineInit: model.eval() left out.
BaseLineInitTraining ==
    [model |-> [weights |-> "best.pth", training |-> TRUE, bn_batches |-> 0],
     device |-> "cpu",
     transform |-> "ToTensor,Normalize"]

\* BaseLine.__init__ (lines 114-134): weights loaded, model.eval(), device,
\* transform.
BaseLineInit ==
    [model |-> [weights |-> "best.pth", training |-> FALSE, bn_batches |-> 0],
     device |-> "cpu",
     transform |-> "ToTensor,Normalize"]

\* What a forward pass leaves in the module: in eval mode nothing; in train
\* mode the batch-norm statistics move.
Forward(model) ==
    IF model.training THEN [model EXCEPT !.bn_batches = @ + 1] ELSE model

\* ------------------------------------------------------------ frame inputs
Kmat(f, cx, cy) == << <<f, 0, cx>>, <<0, f, cy>>, <<0, 0, 1>> >>
Identity3 == << <<1, 0, 0>>, <<0, 1, 0>>, <<0, 0, 1>> >>
Camera(K, R, T) == [intrinsics |-> K, rotation |-> R, translation |-> T]

\* A 19-joint pose around the point b.
PoseOf(b) ==
    [j \in Joints |-> <<b[1] + ((j - 1) % 3) - 1,
                        b[2] + ((j - 1) \div 7),
                        b[3] + ((j - 1) % 2)>>]

\* The frames the loader can yield: two parallel cameras, a pose in front of
\* them or one with a joint on the focal plane, and a pair of images out of
\* three (no evidence at all, a peak in the first cell, a peak in the last).
MainImage(k) ==
    Image(HeatH, HeatW,
          StackOf(HeatH, HeatW,
                  IF k = 2 THEN NCells(HeatH, HeatW) - 1 ELSE 0,
                  IF k = 2 THEN NCells(HeatH, HeatW) - 1 ELSE 0,
                  0, IF k = 0 THEN 0 ELSE MaxVal))

MainMetas ==
    {[cam_left  |-> Camera(Kmat(2, HeatW * 2, HeatH * 2), Identity3, <<0, 0, 0>>),
      cam_right |-> Camera(Kmat(2, HeatW * 2, HeatH * 2), Identity3, <<-2, 0, 0>>),
      pose_3d   |-> PoseOf(b)] : b \in {<<0, 0, 2>>, <<0, 0, 0>>}}

MainFrames ==
    {[img_left |-> MainImage(k), img_right |-> MainImage((k + 1) % 3), meta |-> m] :
        k \in 0..2, m \in MainMetas}

\* Candidate directions for a rank-deficient triangulation.
TriRange == 1
Candidates ==
    {<<x, y, z, w>> : x \in -TriRange..TriRange, y \in -TriRange..TriRange,
                      z \in -TriRange..TriRange, w \in 0..1} \ {<<0, 0, 0, 0>>}

\* ------------------------------------------------------------ control flow
\* Mutant of EstimateOrder: the 2D plot moved before the right inference.
EstimateOrderDrawEarly ==
    <<"project", "infer_left", "plot2d", "infer_right", "PL", "PR",
      "triangulate", "plot3d", "compose">>

\* The statements of estimate in program order (lines 149-176).
EstimateOrder ==
    <<"project", "infer_left", "infer_right", "plot2d", "PL", "PR",
      "triangulate", "plot3d", "compose">>

NextIn(order, p, final) ==
    LET k == CHOOSE i \in 1..Len(order) : order[i] = p
    IN  IF k = Len(order) THEN final ELSE order[k + 1]

IdleCall == [pc |-> "idle", arg |-> None, inputs |-> None, outputs |-> None,
             preds |-> None, maxvals |-> None, cells |-> None, ret |-> None]

\* The local variables of a fresh call of estimate.
FreshLocals ==
    /\ pose_2d_left' = << >> /\ pose_2d_right' = << >>
    /\ preds_left' = << >> /\ preds_right' = << >>
    /\ PL' = None /\ PR' = None /\ pts3D' = << >>
    /\ img_2d' = None /\ img_3d' = None /\ pose_img' = None
    /\ inf' = [v \in Views |-> IdleCall]
    /\ used_gt' = {} /\ tri_args' = None

Init ==
    /\ pc = "loop" /\ frame = 0
    /\ self = BaseLineInit
    /\ meta = None /\ img_left = None /\ img_right = None /\ loaded = None
    /\ pose_2d_left = << >> /\ pose_2d_right = << >>
    /\ preds_left = << >> /\ preds_right = << >>
    /\ PL = None /\ PR = None /\ pts3D = << >>
    /\ img_2d = None /\ img_3d = None /\ pose_img = None
    /\ images = << >>
    /\ inf = [v \in Views |-> IdleCall]
    /\ used_gt = {} /\ tri_args = None
    /\ uint8_wraps \in BOOLEAN   \* how this build converts out-of-range floats

\* for img_left, img_right, meta in MADS_loader (line 195) and the call of
\* method.estimate (line 197).
LoadFrame ==
    /\ pc = "loop" /\ frame < MaxFrames
    /\ \E fr \in MainFrames :
          /\ loaded' = fr
          /\ img_left' = fr.img_left /\ img_right' = fr.img_right
          /\ meta' = fr.meta
    /\ frame' = frame + 1
    /\ pc' = EstimateOrder[1]
    /\ FreshLocals
    /\ UNCHANGED <<self, images, uint8_wraps>>

\* pose_2d_left, pose_2d_right = project(meta) (line 149)
Project(order, final) ==
    /\ pc = "project"
    /\ pose_2d_left' = project(meta)[1]
    /\ pose_2d_right' = project(meta)[2]
    /\ pc' = NextIn(order, pc, final)
    /\ UNCHANGED <<frame, self, meta, img_left, img_right, preds_left, preds_right,
                   PL, PR, pts3D, img_2d, img_3d, pose_img, images, inf, loaded,
                   used_gt, tri_args, uint8_wraps>>

\* ------------------------------------------------------ BaseLine.inference
InferPc(v) == IF v = "left" THEN "infer_left" ELSE "infer_right"

\* The argument of the call: img_left.copy() / img_right.copy() (151-152).
CallArg(v) == Copy(IF v = "left" THEN img_left ELSE img_right)

\* Mutant of ModelInput: one tensor buffer shared by the calls.
ModelInputShared(v) ==
    inf[IF inf["left"].pc \in {"idle", "transform"} THEN v ELSE "left"].inputs

\* The tensor handed to self.model: the local variable inputs (line 139).
ModelInput(v) == inf[v].inputs

\* Mutant of ReturnValue: both results of get_max_preds returned.
ReturnWithConfidence(v) == <<inf[v].preds[1], inf[v].maxvals[1]>>

\* What inference returns: the local preds alone (lines 142 and 146; the
\* second result of get_max_preds is bound to _ and dropped).
ReturnValue(v) == inf[v].preds

estLocals == <<pose_2d_left, pose_2d_right, preds_left, preds_right,
               PL, PR, pts3D, img_2d, img_3d, pose_img>>
frameVars == <<frame, meta, img_left, img_right, images, loaded, used_gt,
               tri_args, uint8_wraps>>

\* self.inference(img.copy()) is entered.
Call(v, at) ==
    /\ pc = at /\ inf[v].pc = "idle"
    /\ inf' = [inf EXCEPT ![v] = [IdleCall EXCEPT !.pc = "transform",
                                                   !.arg = CallArg(v)]]
    /\ UNCHANGED <<pc, self, estLocals, frameVars>>

\* inputs = self.transform(inputs).unsqueeze(0); inputs.to(device) (137-138)
InfTransform(v) ==
    /\ inf[v].pc = "transform"
    /\ inf' = [inf EXCEPT ![v].inputs = Transform(self, inf[v].arg),
                          ![v].pc = "model"]
    /\ UNCHANGED <<pc, self, estLocals, frameVars>>

\* outputs = self.model(inputs) (line 139)
InfModel(v) ==
    /\ inf[v].pc = "model"
    /\ inf' = [inf EXCEPT ![v].outputs = PoseResNet(self, ModelInput(v)),
                          ![v].pc = "decode"]
    /\ self' = [self EXCEPT !.model = Forward(@)]
    /\ UNCHANGED <<pc, estLocals, frameVars>>

\* preds, _ = get_max_preds(outputs.detach().cpu().numpy()) (line 142);
\* cells remembers the value preds has right after this line.
InfDecode(v) ==
    /\ inf[v].pc = "decode"
    /\ LET r == get_max_preds(inf[v].outputs)
       IN  inf' = [inf EXCEPT ![v].preds = r.preds, ![v].maxvals = r.maxvals,
                              ![v].cells = r.preds, ![v].pc = "rescale"]
    /\ UNCHANGED <<pc, self, estLocals, frameVars>>

\* preds = preds * 4.0 (line 143)
InfRescale(v) ==
    /\ inf[v].pc = "rescale"
    /\ inf' = [inf EXCEPT ![v].preds = Rescale(inf[v].preds), ![v].pc = "cast"]
    /\ UNCHANGED <<pc, self, estLocals, frameVars>>

\* preds = preds.astype(np.uint8) (line 144)
InfCast(v) ==
    /\ inf[v].pc = "cast"
    /\ inf' = [inf EXCEPT ![v].preds = AstypeUint8(inf[v].preds, uint8_wraps),
                          ![v].pc = "return"]
    /\ UNCHANGED <<pc, self, estLocals, frameVars>>

\* return preds (line 146)
InfReturn(v) ==
    /\ inf[v].pc = "return"
    /\ inf' = [inf EXCEPT ![v].ret = ReturnValue(v), ![v].pc = "returned"]
    /\ UNCHANGED <<pc, self, estLocals, frameVars>>

\* preds_left = (...).squeeze(0) / preds_right = (...).squeeze(0) (151-152)
Bind(v, at, to) ==
    /\ pc = at /\ inf[v].pc = "returned"
    /\ IF v = "left"
       THEN preds_left' = Squeeze(inf[v].ret) /\ UNCHANGED preds_right
       ELSE preds_right' = Squeeze(inf[v].ret) /\ UNCHANGED preds_left
    /\ inf' = [inf EXCEPT ![v].pc = "bound"]
    /\ pc' = to
    /\ UNCHANGED <<self, pose_2d_left, pose_2d_right, PL, PR, pts3D, img_2d,
                   img_3d, pose_img, frameVars>>

\* -------------------------------------------------------- BaseLine.estimate
\* img_2d = plot_pose_2d(...); cv2.cvtColor(img_2d, BGR2RGB) (lines 154-157).
\* The circles are drawn on img_left and img_right themselves.
Plot2d(order, final) ==
    /\ pc = "plot2d"
    /\ LET l == PlotView(pose_2d_left, preds_left, img_left)
           r == PlotView(pose_2d_right, preds_right, img_right)
       IN  IF l.raised
           THEN /\ img_left' = l.img /\ UNCHANGED <<img_right, img_2d>>
                /\ used_gt' = used_gt \cup l.read
                /\ pc' = "raised"
           ELSE /\ img_left' = l.img /\ img_right' = r.img
                /\ used_gt' = used_gt \cup l.read \cup r.read
                /\ IF r.raised
                   THEN pc' = "raised" /\ UNCHANGED img_2d
                   ELSE /\ img_2d' = [kind |-> "RGB", parts |-> <<l.img, r.img>>]
                        /\ pc' = NextIn(order, pc, final)
    /\ UNCHANGED <<frame, self, meta, pose_2d_left, pose_2d_right, preds_left,
                   preds_right, PL, PR, pts3D, img_3d, pose_img, images, inf,
                   loaded, tri_args, uint8_wraps>>

\* PL = get_projection_matrix(meta['cam_left'] ...) (lines 159-161)
BuildPL(order, final) ==
    /\ pc = "PL"
    /\ PL' = get_projection_matrix(meta.cam_left.intrinsics,
                                   meta.cam_left.rotation,
                                   meta.cam_left.translation)
    /\ pc' = NextIn(order, pc, final)
    /\ UNCHANGED <<self, pose_2d_left, pose_2d_right, preds_left, preds_right,
                   PR, pts3D, img_2d, img_3d, pose_img, inf, frameVars>>

\* PR = get_projection_matrix(meta['cam_right'] ...) (lines 162-164)
BuildPR(order, final) ==
    /\ pc = "PR"
    /\ PR' = get_projection_matrix(meta.cam_right.intrinsics,
                                   meta.cam_right.rotation,
                                   meta.cam_right.translation)
    /\ pc' = NextIn(order, pc, final)
    /\ UNCHANGED <<self, pose_2d_left, pose_2d_right, preds_left, preds_right,
                   PL, pts3D, img_2d, img_3d, pose_img, inf, frameVars>>

\* Mutant of TriangulationArgs: the keypoint sets swapped.
TriangulationArgsSwapped == <<PL, PR, preds_right, preds_left>>

\* The actual parameters of the call of line 166.
TriangulationArgs == <<PL, PR, preds_left, preds_right>>

\* pts3D = triangulation(PL, PR, preds_left, preds_right) (line 166)
Triangulate(order, final) ==
    /\ pc = "triangulate"
    /\ tri_args' = [P_L |-> TriangulationArgs[1], P_R |-> TriangulationArgs[2],
                    x_left |-> TriangulationArgs[3],
                    x_right |-> TriangulationArgs[4],
                    decoded |-> {v \in Views : inf[v].pc = "bound"}]
    /\ pts3D' \in triangulation(TriangulationArgs[1], TriangulationArgs[2],
                                TriangulationArgs[3], TriangulationArgs[4],
                                Candidates)
    /\ pc' = NextIn(order, pc, final)
    /\ UNCHANGED <<frame, self, meta, img_left, img_right, pose_2d_left,
                   pose_2d_right, preds_left, preds_right, PL, PR, img_2d,
                   img_3d, pose_img, images, inf, loaded, used_gt, uint8_wraps>>

\* img_3d = plot_pose_3d(np.array(meta['pose_3d']), pts3D) (line 167)
Plot3d(order, final) ==
    /\ pc = "plot3d"
    /\ img_3d' = plot_pose_3d(meta.pose_3d, pts3D)
    /\ pc' = NextIn(order, pc, final)
    /\ UNCHANGED <<self, pose_2d_left, pose_2d_right, preds_left, preds_right,
                   PL, PR, pts3D, img_2d, pose_img, inf, frameVars>>

\* ratio, cv2.resize, np.vstack, return img (lines 169-176)
Compose(order, final) ==
    /\ pc = "compose"
    /\ pose_img' = [top |-> img_2d, bottom |-> [resized |-> img_3d]]
    /\ pc' = NextIn(order, pc, final)
    /\ UNCHANGED <<self, pose_2d_left, pose_2d_right, preds_left, preds_right,
                   PL, PR, pts3D, img_2d, img_3d, inf, frameVars>>

\* im = pil.fromarray(pose_img); images.append(im) (lines 199-200)
AppendImage ==
    /\ pc = "append"
    /\ images' = Append(images, pose_img)
    /\ pc' = "loop"
    /\ UNCHANGED <<frame, self, meta, img_left, img_right, estLocals, inf,
                   loaded, used_gt, tri_args, uint8_wraps>>

\* The loader is exhausted: images[0].save('pose.gif', ...) (lines 202-204)
SaveGif ==
    /\ pc = "loop" /\ frame >= 1
    /\ pc' = "done"
    /\ UNCHANGED <<frame, self, meta, img_left, img_right, estLocals, images,
                   inf, loaded, used_gt, tri_args, uint8_wraps>>

Inference(v) ==
    \/ InfTransform(v) \/ InfModel(v) \/ InfDecode(v)
    \/ InfRescale(v) \/ InfCast(v) \/ InfReturn(v)

Next ==
    \/ LoadFrame
    \/ Project(EstimateOrder, "append")
    \/ \E v \in Views : Call(v, InferPc(v))
    \/ \E v \in Views : Inference(v)
    \/ \E v \in Views : Bind(v, InferPc(v), NextIn(EstimateOrder, InferPc(v), "append"))
    \/ Plot2d(EstimateOrder, "append")
    \/ BuildPL(EstimateOrder, "append")
    \/ BuildPR(EstimateOrder, "append")
    \/ Triangulate(EstimateOrder, "append")
    \/ Plot3d(EstimateOrder, "append")
    \/ Compose(EstimateOrder, "append")
    \/ AppendImage
    \/ SaveGif

Spec == Init /\ [][Next]_vars

\* ------------------------------------------- one inference, wide heatmaps
\* A single call of inference on an image whose heatmap is DecH x DecW cells.
DecodeImages ==
    {Image(DecH, DecW, StackOf(DecH, DecW, c1, c2, lo, d)) :
        c1 \in 0..(NCells(DecH, DecW) - 1),
        c2 \in {0, NCells(DecH, DecW) - 1},
        lo \in 0..MaxVal, d \in 0..1}

InitDecode ==
    /\ pc = "call" /\ frame = 1
    /\ self = BaseLineInit
    /\ \E l \in DecodeImages :
          /\ img_left = l /\ img_right = None
          /\ loaded = [img_left |-> l, img_right |-> None, meta |-> None]
    /\ meta = None
    /\ pose_2d_left = << >> /\ pose_2d_right = << >>
    /\ preds_left = << >> /\ preds_right = << >>
    /\ PL = None /\ PR = None /\ pts3D = << >>
    /\ img_2d = None /\ img_3d = None /\ pose_img = None
    /\ images = << >>
    /\ inf = [v \in Views |-> IdleCall]
    /\ used_gt = {} /\ tri_args = None
    /\ uint8_wraps \in BOOLEAN

NextDecode ==
    \/ Call("left", "call")
    \/ Inference("left")
    \/ Bind("left", "call", "called")

SpecDecode == InitDecode /\ [][NextDecode]_vars

\* ------------------------------------- the two views' inferences interleaved
\* The second peak: on the first one, in the first cell or in the last cell.
SecondPeak(c1, k, n) == IF k = 0 THEN c1 ELSE IF k = 1 THEN 0 ELSE n - 1

ParLeftImages ==
    {Image(HeatH, HeatW,
           StackOf(HeatH, HeatW, c1, SecondPeak(c1, k, NCells(HeatH, HeatW)), lo, d)) :
        c1 \in 0..(NCells(HeatH, HeatW) - 1), k \in 0..2,
        lo \in {0, MaxVal}, d \in 0..1}

ParRightImages ==
    {Image(HeatH, HeatW, StackOf(HeatH, HeatW, c1, NCells(HeatH, HeatW) - 1, 0, 1)) :
        c1 \in 0..(NCells(HeatH, HeatW) - 1)}

InitPar ==
    /\ pc = "par" /\ frame = 1
    /\ self = BaseLineInit
    /\ \E l \in ParLeftImages, r \in ParRightImages :
          /\ img_left = l /\ img_right = r
          /\ loaded = [img_left |-> l, img_right |-> r, meta |-> None]
    /\ meta = None
    /\ pose_2d_left = << >> /\ pose_2d_right = << >>
    /\ preds_left = << >> /\ preds_right = << >>
    /\ PL = None /\ PR = None /\ pts3D = << >>
    /\ img_2d = None /\ img_3d = None /\ pose_img = None
    /\ images = << >>
    /\ inf = [v \in Views |-> IdleCall]
    /\ used_gt = {} /\ tri_args = None
    /\ uint8_wraps = TRUE

\* Both views' results are in: the point before triangulation.
ParJoin ==
    /\ pc = "par" /\ \A v \in Views : inf[v].pc = "bound"
    /\ pc' = "joined"
    /\ UNCHANGED <<self, estLocals, inf, frameVars>>

NextPar ==
    \/ \E v \in Views : Call(v, "par")
    \/ \E v \in Views : Inference(v)
    \/ \E v \in Views : Bind(v, "par", "par")
    \/ ParJoin

SpecPar == InitPar /\ [][NextPar]_vars

\* ---------------------------------- projection followed by triangulation
RotY90 == << <<0, 0, 1>>, <<0, 1, 0>>, <<-1, 0, 0>> >>

TriCameras ==
    {Camera(K, R, T) :
        K \in {Kmat(1, 0, 0), Kmat(2, 1, 1)},
        R \in {Identity3, RotY90},
        T \in {<<0, 0, 0>>, <<1, 0, 0>>, <<0, 0, 1>>, <<-1, 0, 0>>}}

TriPoints ==
    {<<x, y, z>> : x \in -TriRange..TriRange, y \in -TriRange..TriRange,
                   z \in -TriRange..TriRange}

\* The synthetic pair of the end-to-end scenario: focal length 1000,
\* principal point (320, 240), one camera at the origin and one 500 further
\* along X with the same orientation.
ScenarioMetas ==
    {[cam_left  |-> Camera(Kmat(1000, 320, 240), Identity3, <<0, 0, 0>>),
      cam_right |-> Camera(Kmat(1000, 320, 240), Identity3, <<-500, 0, 0>>),
      pose_3d   |-> <<X>>] : X \in {<<0, 0, 2000>>, <<100, -50, 1000>>}}

TriMetas ==
    {[cam_left |-> l, cam_right |-> r, pose_3d |-> <<X>>] :
        l \in TriCameras, r \in TriCameras, X \in TriPoints}
    \cup ScenarioMetas

\* The order of the scenario: project, take the projections as the decoded
\* keypoints, build both operators, triangulate.
TriOrder == <<"project", "exact", "PL", "PR", "triangulate">>

InitTri ==
    /\ pc = "project" /\ frame = 1
    /\ self = BaseLineInit
    /\ meta \in TriMetas
    /\ loaded = [img_left |-> None, img_right |-> None, meta |-> meta]
    /\ img_left = None /\ img_right = None
    /\ pose_2d_left = << >> /\ pose_2d_right = << >>
    /\ preds_left = << >> /\ preds_right = << >>
    /\ PL = None /\ PR = None /\ pts3D = << >>
    /\ img_2d = None /\ img_3d = None /\ pose_img = None
    /\ images = << >>
    /\ inf = [v \in Views |-> IdleCall]
    /\ used_gt = {} /\ tri_args = None
    /\ uint8_wraps = TRUE

\* Decoding treated as exact: the keypoints are the projections themselves.
ExactKeypoints ==
    /\ pc = "exact"
    /\ preds_left' = pose_2d_left /\ preds_right' = pose_2d_right
    /\ pc' = NextIn(TriOrder, pc, "tri_done")
    /\ UNCHANGED <<self, pose_2d_left, pose_2d_right, PL, PR, pts3D, img_2d,
                   img_3d, pose_img, inf, frameVars>>

NextTri ==
    \/ Project(TriOrder, "tri_done")
    \/ ExactKeypoints
    \/ BuildPL(TriOrder, "tri_done")
    \/ BuildPR(TriOrder, "tri_done")
    \/ Triangulate(TriOrder, "tri_done")

SpecTri == InitTri /\ [][NextTri]_vars

\* ================================================================ properties
PastModel == {"decode", "rescale", "cast", "return", "returned", "bound"}
PastDecode == {"rescale", "cast", "return", "returned", "bound"}
Returned == {"returned", "bound"}

ViewImage(fr, v) == IF v = "left" THEN fr.img_left ELSE fr.img_right

\* The first cell, in row-major order, that holds the largest value of a map.
FirstPeak(val) ==
    LET m == MaxOf(val)
    IN  CHOOSE i \in DOMAIN val :
            val[i] = m /\ \A k \in DOMAIN val : k < i => val[k] # m

\* The peak cells of a map.
PeakCells(val) == {i \in DOMAIN val : \A k \in DOMAIN val : val[k] <= val[i]}

\* ---- C2 ------------------------------------------------------------------
\* C2: for every joint and every peak position (row r, column c) of the
\* heatmap, the location inference returns (after the multiplication by the
\* stride and the cast to uint8) is (c * 4, r * 4).
C2_ReturnedLocationIsPeakTimesStride ==
    \A v \in Views :
        inf[v].pc \in Returned =>
            \A j \in Joints :
                LET hm == inf[v].outputs
                    i == FirstPeak(hm.val[j])
                IN  inf[v].ret[1][j] = <<(i % hm.W) * Stride, (i \div hm.W) * Stride>>

\* ---- C4 ------------------------------------------------------------------
\* C4: whenever a joint's heatmap holds its maximum in more than one cell,
\* the decoded cell is the first of them in row-major order (smallest row,
\* then smallest column); and a second decoding of the same heatmap (the
\* other view's, when both views show the same heatmap) gives the same cell.
C4_TieBreakFirstRowMajor ==
    /\ \A v \in Views :
          inf[v].pc \in PastDecode =>
              \A j \in Joints :
                  LET hm == inf[v].outputs
                      col == inf[v].cells[1][j][1]
                      row == inf[v].cells[1][j][2]
                  IN  /\ col \in 0..(hm.W - 1) /\ row \in 0..(hm.H - 1)
                      /\ (row * hm.W + col) \in PeakCells(hm.val[j])
                      /\ \A k \in PeakCells(hm.val[j]) :
                            \/ k \div hm.W > row
                            \/ k \div hm.W = row /\ k % hm.W >= col
    /\ (/\ inf["left"].pc \in PastDecode /\ inf["right"].pc \in PastDecode
        /\ inf["left"].outputs = inf["right"].outputs)
       => inf["left"].cells = inf["right"].cells

\* Witness of C4: both views decoded the same heatmap, in which joint 1 has
\* its maximum in two cells, the later one not being the decoded one.
C4_Witness ==
    /\ inf["left"].pc \in PastDecode /\ inf["right"].pc \in PastDecode
    /\ inf["left"].outputs = inf["right"].outputs
    /\ Cardinality(PeakCells(inf["left"].outputs.val[1])) = 2
    /\ \E k \in PeakCells(inf["left"].outputs.val[1]) :
          k > 0 /\ inf["left"].cells[1][1] # <<k % HeatW, k \div HeatW>>

\* ---- C7 ------------------------------------------------------------------
\* inference as one sequential run on an image, with nothing else running.
SequentialInference(img) ==
    Squeeze(AstypeUint8(
        Rescale(get_max_preds(PoseResNet(BaseLineInit,
                                         Transform(BaseLineInit, Copy(img)))).preds),
        uint8_wraps))

\* C7: under every order and interleaving of the two views' inference steps,
\* the pair (preds_left, preds_right) that reaches the point before
\* triangulation is the pair of the sequential left-then-right execution.
C7_ViewsAreDataIndependent ==
    pc = "joined" =>
        /\ preds_left = SequentialInference(loaded.img_left)
        /\ preds_right = SequentialInference(loaded.img_right)

\* Witness of C7: the join is reached with different keypoints in the views.
C7_Witness == pc = "joined" /\ preds_left # preds_right

\* ---- C1 ------------------------------------------------------------------
\* The camera centre -R^T t.
Centre(cam) ==
    [i \in 1..3 |-> -Dot3(Col3(cam.rotation, i), cam.translation)]

Cross3(a, b) ==
    <<a[2] * b[3] - a[3] * b[2], a[3] * b[1] - a[1] * b[3],
      a[1] * b[2] - a[2] * b[1]>>

Sub3(a, b) == <<a[1] - b[1], a[2] - b[2], a[3] - b[3]>>

\* X lies on the line through the two camera centres.
OnBaseline(X, m) ==
    Cross3(Sub3(X, Centre(m.cam_left)),
           Sub3(Centre(m.cam_right), Centre(m.cam_left))) = <<0, 0, 0>>

\* The case of the round trip: distinct centres, non-zero depth in both views.
RoundTripCase ==
    /\ pc = "tri_done"
    /\ Centre(meta.cam_left) # Centre(meta.cam_right)
    /\ pose_2d_left[1][3] # 0 /\ pose_2d_right[1][3] # 0

\* (X, 1) is in the null space of the system built from the two projections,
\* and triangulation returned X.
RoundTripRecovers ==
    LET X == meta.pose_3d[1]
        A == DltSystem(tri_args.P_L, tri_args.P_R, tri_args.x_left[1],
                       tri_args.x_right[1])
    IN  /\ \A r \in 1..4 : Dot4(A[r], <<X[1], X[2], X[3], 1>>) = 0
        /\ pts3D[1] = [kind |-> "point", h |-> <<X[1], X[2], X[3], 1>>]

\* C1 as stated: for two cameras with distinct centres and any X with
\* non-zero depth in both views, triangulating the two exact projections of
\* X returns X.
C1_RoundTripAnyPoint == RoundTripCase => RoundTripRecovers

\* C1 amended: the same for every such X that is not on the line through the
\* two camera centres; in particular (0, 0, 2000) is recovered in the
\* scenario with focal length 1000 and the cameras 500 apart along X.
C1_RoundTripOffBaseline ==
    (RoundTripCase /\ ~OnBaseline(meta.pose_3d[1], meta)) => RoundTripRecovers

\* Witness of C1: the scenario's point has been recovered.
C1_Witness ==
    /\ RoundTripCase /\ meta \in ScenarioMetas
    /\ meta.pose_3d[1] = <<0, 0, 2000>>
    /\ pts3D[1].h = <<0, 0, 2000, 1>>

\* ---- C3 ------------------------------------------------------------------
\* C3: once triangulation has been invoked for a frame, both views had been
\* decoded, PL and PR are the operators of that frame's calibration, and the
\* call paired the left keypoints with PL and the right keypoints with PR.
C3_TriangulationAfterBothViews ==
    pc \in {"plot3d", "compose", "append"} =>
        /\ tri_args.decoded = Views
        /\ tri_args.P_L = get_projection_matrix(loaded.meta.cam_left.intrinsics,
                                                loaded.meta.cam_left.rotation,
                                                loaded.meta.cam_left.translation)
        /\ tri_args.P_R = get_projection_matrix(loaded.meta.cam_right.intrinsics,
                                                loaded.meta.cam_right.rotation,
                                                loaded.meta.cam_right.translation)
        /\ tri_args.x_left = Squeeze(inf["left"].ret)
        /\ tri_args.x_right = Squeeze(inf["right"].ret)

\* Witness of C3: triangulation has run on views with different keypoints
\* and different operators.
C3_Witness ==
    /\ pc = "plot3d" /\ preds_left # preds_right /\ PL # PR
    /\ Len(pts3D) = NumJoints

EstimateResults(fr) ==
    LET g == project(fr.meta)
        pl == SequentialInference(fr.img_left)
        pr == SequentialInference(fr.img_right)
        l == PlotView(g[1], pl, fr.img_left)
        r == PlotView(g[2], pr, fr.img_right)
        P_L == get_projection_matrix(fr.meta.cam_left.intrinsics,
                                     fr.meta.cam_left.rotation,
                                     fr.meta.cam_left.translation)
        P_R == get_projection_matrix(fr.meta.cam_right.intrinsics,
                                     fr.meta.cam_right.rotation,
                                     fr.meta.cam_right.translation)
    IN  {[top |-> [kind |-> "RGB", parts |-> <<l.img, r.img>>],
          bottom |-> [resized |-> plot_pose_3d(fr.meta.pose_3d, t)]] :
            t \in triangulation(P_L, P_R, pl, pr, Candidates)}

\* C6: estimate changes no field of the BaseLine object and does not change
\* meta, and after any sequence of earlier frames the result of estimate is
\* determined by the frame's (img_left, img_right, meta) alone.
C6_NoStateAcrossFrames ==
    /\ self = BaseLineInit
    /\ frame >= 1 => meta = loaded.meta
    /\ pc = "append" => pose_img \in EstimateResults(loaded)

\* Witness of C6: a second frame returns after a different first frame.
C6_Witness ==
    /\ pc = "append" /\ frame = 2 /\ Len(images) = 1
    /\ images[1] # pose_img

\* ---- C8 ------------------------------------------------------------------
\* C8: a ground-truth point that projects with w = 0 is detected and its 2D
\* coordinates are never used by a later step of estimate.
C8_DegenerateProjectionNeverUsed == \A p \in used_gt : p[3] # 0

\* ---- C9 ------------------------------------------------------------------
\* The pairs plot_body drew, as (first, second) joint indices.
DrawnPairs == img_3d.gt.lines

RECURSIVE ReachesRoot(_, _, _)
\* Following parent links from joint j ends in joint 0.
ReachesRoot(parent, j, fuel) ==
    \/ j = 0
    \/ fuel > 0 /\ j \in DOMAIN parent /\ ReachesRoot(parent, parent[j], fuel - 1)

\* The 18 pairs span the 19 joints as a tree rooted in joint 0 when, of each
\* pair, child(k) is the child and parent(k) the parent.
IsRootedTree(child, parent) ==
    /\ Len(DrawnPairs) = NumJoints - 1
    /\ \A k \in 1..Len(DrawnPairs) :
          child[k] \in 0..(NumJoints - 1) /\ parent[k] \in 0..(NumJoints - 1)
    /\ \A j \in 1..(NumJoints - 1) :
          Cardinality({k \in 1..Len(DrawnPairs) : child[k] = j}) = 1
    /\ \A k \in 1..Len(DrawnPairs) : child[k] # 0
    /\ LET up == [j \in {child[k] : k \in 1..Len(DrawnPairs)} |->
                     parent[CHOOSE k \in 1..Len(DrawnPairs) : child[k] = j]]
       IN  \A j \in 0..(NumJoints - 1) : ReachesRoot(up, j, NumJoints)

\* C9 as stated: each pair is (childIndex, parentIndex).
C9_PairsAreChildParent ==
    pc \in {"compose", "append"} =>
        IsRootedTree([k \in 1..Len(DrawnPairs) |-> DrawnPairs[k].from],
                     [k \in 1..Len(DrawnPairs) |-> DrawnPairs[k].to])

\* C9 amended: each pair is (parentIndex, childIndex); with joint 0 as the
\* root every other joint occurs exactly once as a child, joint 0 never, and
\* the 18 edges form a tree that spans all 19 joints.
C9_PairsAreParentChild ==
    pc \in {"compose", "append"} =>
        IsRootedTree([k \in 1..Len(DrawnPairs) |-> DrawnPairs[k].to],
                     [k \in 1..Len(DrawnPairs) |-> DrawnPairs[k].from])

\* Witness of C9: plot_body has drawn both skeletons of a frame.
C9_Witness ==
    /\ pc = "compose"
    /\ Len(img_3d.gt.lines) = NumJoints - 1
    /\ Len(img_3d.est.lines) = NumJoints - 1

\* ---- C10 -----------------------------------------------------------------
\* C10: no marker is on img_left or img_right before the inference of both
\* views has finished, and the pixels the model received for a view are the
\* pixels the caller passed in.
C10_InferenceBeforeMarkers ==
    frame >= 1 =>
        /\ (img_left.marks # {} \/ img_right.marks # {}) =>
              \A v \in Views : inf[v].pc = "bound"
        /\ \A v \in Views :
              inf[v].pc \in PastModel =>
                  inf[v].inputs.data = ViewImage(loaded, v)

\* Witness of C10: the markers are on both images, after both inferences.
C10_Witness ==
    /\ pc = "PL" /\ img_left.marks # {} /\ img_right.marks # {}
    /\ \A v \in Views : inf[v].pc = "bound"
====
